---------------------------- MODULE Spec2Model ----------------------------
(***************************************************************************)
(* A model of crocle's transfer service (src/main.py): the log parsers,    *)
(* the status derivation of handle_container, the POST /transfer handler   *)
(* with its path resolver, and the periodic reaper                         *)
(* cleanup_waiting_containers, together with the container runtime they    *)
(* talk to (containers that emit log lines, exit, and calls that fail).    *)
(*                                                                         *)
(* Text is modelled as TLA+ strings, read one character at a time; the     *)
(* regular expressions of the source are written out as matchers over      *)
(* those strings.  Time is kept relative: age[c] is time.time() minus the  *)
(* container's Created timestamp and sleepLeft is what remains of the      *)
(* reaper's asyncio.sleep, both in seconds.                                *)
(***************************************************************************)
EXTENDS Naturals, Integers, Sequences, FiniteSets

----------------------------------------------------------------------------
(* Characters and character classes of Python's re module (ASCII part).    *)

Ch(s, i) == SubSeq(s, i, i)

DigitSeq == "0123456789"
UpperSeq == "ABCDEFGHIJKLMNOPQRSTUVWXYZ"
LowerSeq == "abcdefghijklmnopqrstuvwxyz"

Digits == {Ch(DigitSeq, i) : i \in 1..10}
UpperLetters == {Ch(UpperSeq, i) : i \in 1..26}
LowerLetters == {Ch(LowerSeq, i) : i \in 1..26}

\* \w : what \b looks at
WordChars == Digits \cup UpperLetters \cup LowerLetters \cup {"_"}

\* \s inside a line, and what str.strip() removes
Spaces == {" ", "\t"}

\* [\r\n] : the separators decode_log_lines splits on
LineBreaks == {"\r", "\n"}

\* [a-z0-9-] under re.IGNORECASE
CodeChars == LowerLetters \cup UpperLetters \cup Digits \cup {"-"}

\* str.lower() of one character, as re.IGNORECASE compares literals
Lower(ch) ==
    IF ch \in UpperLetters
    THEN Ch(LowerSeq, CHOOSE i \in 1..26 : Ch(UpperSeq, i) = ch)
    ELSE ch

DigitVal(ch) == (CHOOSE i \in 1..10 : Ch(DigitSeq, i) = ch) - 1

\* int() of a run of decimal digits
RECURSIVE ToInt(_)
ToInt(s) ==
    IF Len(s) = 0 THEN 0
    ELSE 10 * ToInt(SubSeq(s, 1, Len(s) - 1)) + DigitVal(Ch(s, Len(s)))

\* Python's None, for an Optional[str] and for an Optional[int]
None == "<None>"
NoPercent == -1

\* the same without re.IGNORECASE
LiteralAtCaseSensitive(s, i, lit) ==
    /\ i >= 1
    /\ i + Len(lit) - 1 <= Len(s)
    /\ \A k \in 1..Len(lit) : Ch(s, i + k - 1) = Ch(lit, k)

\* a literal of the pattern matches s at position i, letter case ignored
LiteralAt(s, i, lit) ==
    /\ i >= 1
    /\ i + Len(lit) - 1 <= Len(s)
    /\ \A k \in 1..Len(lit) : Lower(Ch(s, i + k - 1)) = Lower(Ch(lit, k))

\* the position after the longest run of characters of class cls from i on
\* (a greedy X* : the classes that follow in the patterns are disjoint from
\* cls, so the longest run is the only one that can match)
RunEnd(s, i, cls) ==
    CHOOSE j \in i..(Len(s) + 1) :
        /\ \A k \in i..(j - 1) : Ch(s, k) \in cls
        /\ (j = Len(s) + 1 \/ Ch(s, j) \notin cls)

\* re.search: the leftmost of the positions at which the pattern matches,
\* 0 if it matches nowhere
Leftmost(hits) ==
    IF hits = {} THEN 0 ELSE CHOOSE i \in hits : \A j \in hits : i <= j

----------------------------------------------------------------------------
(* decode_log_lines                                                        *)

\* str.strip()
RECURSIVE Strip(_)
Strip(s) ==
    IF Len(s) = 0 THEN s
    ELSE IF Ch(s, 1) \in Spaces \cup LineBreaks THEN Strip(SubSeq(s, 2, Len(s)))
    ELSE IF Ch(s, Len(s)) \in Spaces \cup LineBreaks
         THEN Strip(SubSeq(s, 1, Len(s) - 1))
    ELSE s

\* re.split(r"[\r\n]+", text), then strip every part and drop the empty ones
RECURSIVE decode_log_lines(_)
decode_log_lines(raw) ==
    IF Len(raw) = 0 THEN << >>
    ELSE LET brk == IF \E i \in 1..Len(raw) : Ch(raw, i) \in LineBreaks
                    THEN CHOOSE i \in 1..Len(raw) :
                            /\ Ch(raw, i) \in LineBreaks
                            /\ \A j \in 1..(i - 1) : Ch(raw, j) \notin LineBreaks
                    ELSE Len(raw) + 1
             part == Strip(SubSeq(raw, 1, brk - 1))
             rest == decode_log_lines(SubSeq(raw, brk + 1, Len(raw)))
         IN  IF Len(part) = 0 THEN rest ELSE <<part>> \o rest

----------------------------------------------------------------------------
(* parse_code                                                              *)

SecretLabel == "CROC_SECRET=\""
CodeLabel == "Code"
IsLabel == "is:"

\* re.search(r"CROC_SECRET=\"([a-z0-9-]+)\"", line, re.IGNORECASE) at i
SecretAt(s, i) ==
    /\ LiteralAt(s, i, SecretLabel)
    /\ LET g == i + Len(SecretLabel)
           e == RunEnd(s, g, CodeChars)
       IN  e > g /\ e <= Len(s) /\ Ch(s, e) = "\""

SecretGroup(s, i) ==
    LET g == i + Len(SecretLabel)
    IN  SubSeq(s, g, RunEnd(s, g, CodeChars) - 1)

\* re.search(r"Code\s+is:\s*([a-z0-9-]+)", line, re.IGNORECASE) at i
CodeIsAt(s, i) ==
    /\ LiteralAt(s, i, CodeLabel)
    /\ LET a == i + Len(CodeLabel)
           b == RunEnd(s, a, Spaces)
           c == RunEnd(s, b + Len(IsLabel), Spaces)
       IN  /\ b > a
           /\ LiteralAt(s, b, IsLabel)
           /\ RunEnd(s, c, CodeChars) > c

CodeIsGroup(s, i) ==
    LET a == i + Len(CodeLabel)
        b == RunEnd(s, a, Spaces)
        c == RunEnd(s, b + Len(IsLabel), Spaces)
    IN  SubSeq(s, c, RunEnd(s, c, CodeChars) - 1)

\* one turn of parse_code's loop: the code of one line, or None
LineCode(line) ==
    LET m1 == Leftmost({i \in 1..Len(line) : SecretAt(line, i)})
        m2 == Leftmost({i \in 1..Len(line) : CodeIsAt(line, i)})
    IN  IF m1 # 0 THEN SecretGroup(line, m1)
        ELSE IF m2 # 0 THEN CodeIsGroup(line, m2)
        ELSE None

RECURSIVE parse_code(_)
parse_code(lines) ==
    IF lines = << >> THEN None
    ELSE IF LineCode(Head(lines)) # None THEN LineCode(Head(lines))
    ELSE parse_code(Tail(lines))

----------------------------------------------------------------------------
(* find_last_progress_line and parse_progress_details                      *)

\* (\d{1,3})%\s*\| at i, the group k digits long
PercentAtLen(s, i, k) ==
    /\ i + k <= Len(s)
    /\ \A d \in 0..(k - 1) : Ch(s, i + d) \in Digits
    /\ Ch(s, i + k) = "%"
    /\ LET b == RunEnd(s, i + k + 1, Spaces)
       IN  b <= Len(s) /\ Ch(s, b) = "|"

PercentAt(s, i) == \E k \in 1..3 : PercentAtLen(s, i, k)

\* PROGRESS_LINE_REGEX = \b\d{1,3}%\s*\| at i: \b before a digit holds at the
\* start of the line and after a character that is not a word character
ProgressAt(s, i) ==
    /\ PercentAt(s, i)
    /\ (i = 1 \/ Ch(s, i - 1) \notin WordChars)

RECURSIVE find_last_progress_line(_)
find_last_progress_line(lines) ==
    IF lines = << >> THEN None
    ELSE LET line == lines[Len(lines)]
         IN  IF Leftmost({i \in 1..Len(line) : ProgressAt(line, i)}) # 0 THEN line
             ELSE find_last_progress_line(SubSeq(lines, 1, Len(lines) - 1))

\* the "percent" entry of parse_progress_details' result (speed, eta and
\* filename do not enter the status and are left out)
parse_progress_details(line) ==
    LET m == Leftmost({i \in 1..Len(line) : PercentAt(line, i)})
    IN  IF m = 0 THEN NoPercent
        ELSE LET k == CHOOSE n \in 1..3 : PercentAtLen(line, m, n)
             IN  ToInt(SubSeq(line, m, m + k - 1))

----------------------------------------------------------------------------
(* The state.                                                              *)

VARIABLES
    live,       \* the containers the runtime lists under the label "crocle"
    started,    \* how many containers the runtime has started so far
    age,        \* age[c]: seconds since the container's Created timestamp
    logs,       \* logs[c]: the container's output, a sequence of bursts
    runCalls,   \* the filenames DOCKER_CLIENT.containers.run was called for
    response,   \* the request and the answer of the latest POST /transfer
    lastInfo,   \* lastInfo[c]: what handle_container last returned for c
    sinceInfo,  \* sinceInfo[c]: the raw lines c has emitted since then
    pc,         \* where cleanup_waiting_containers stands
    sleepLeft,  \* seconds left of its asyncio.sleep
    listed,     \* the rest of the list its for loop walks
    nowAge,     \* nowAge[c]: now - created_timestamp, now taken at line 251
    info,       \* its locals container and info: which container it last
                \* derived a status for, that status, and the age it had
    lastCall,   \* the reaper's latest runtime call and whether it raised
    parseIn,    \* the line handed to parse_code (parts it is built from)
    parseOut    \* what parse_code returned for it

runtimeVars == <<live, started, age, logs>>
httpVars == <<runCalls, response, lastInfo, sinceInfo>>
reaperVars == <<pc, sleepLeft, listed, nowAge, info, lastCall>>
parseVars == <<parseIn, parseOut>>
vars == <<live, started, age, logs, runCalls, response, lastInfo, sinceInfo,
          pc, sleepLeft, listed, nowAge, info, lastCall,
          parseIn, parseOut>>

\* bounds of the model
MaxContainers == 2
MaxBursts == 3

Ids == 1..MaxContainers

\* program constants
WAITING_MAX_AGE_SECONDS == 600
CLEANUP_INTERVAL_SECONDS == 60
LogTailLines == 200

----------------------------------------------------------------------------
(* A container's log.  The runtime keeps the output as lines; the model    *)
(* writes a burst of n equal raw lines as one entry [raw, n].              *)

LogAppend(log, raw, n) == Append(log, [raw |-> raw, n |-> n])

\* container.logs(tail=k): the last k raw lines
RECURSIVE LogTail(_, _)
LogTail(log, k) ==
    IF k = 0 \/ log = << >> THEN << >>
    ELSE LET last == log[Len(log)]
         IN  IF last.n >= k THEN << [raw |-> last.raw, n |-> k] >>
             ELSE LogTail(SubSeq(log, 1, Len(log) - 1), k - last.n) \o <<last>>

\* decode_log_lines of what logs() returned.  A burst's lines are decoded
\* once: parse_code takes the first line that matches and
\* find_last_progress_line the last, and neither changes when a block of
\* lines is repeated in place.
RECURSIVE CapturedLines(_)
CapturedLines(tail) ==
    IF tail = << >> THEN << >>
    ELSE decode_log_lines(Head(tail).raw) \o CapturedLines(Tail(tail))

----------------------------------------------------------------------------
(* handle_container: status, code and progress of the returned dict.       *)

\* the two tests of lines 206-209 in the other order
StatusOfCodeFirst(percent, code) ==
    IF code # "" THEN "waiting"
    ELSE IF percent # NoPercent THEN "transferring"
    ELSE "preparing"

\* lines 206-209
StatusOf(percent, code) ==
    IF percent # NoPercent THEN "transferring"
    ELSE IF code # "" THEN "waiting"
    ELSE "preparing"

handle_container(log) ==
    LET tail == LogTail(log, LogTailLines)
        lines == CapturedLines(tail)
        last_progress == find_last_progress_line(lines)
        percent == IF last_progress # None
                   THEN parse_progress_details(last_progress)
                   ELSE NoPercent
        parsed == parse_code(lines)
        code == IF parsed = None THEN "" ELSE parsed
    IN  [status |-> StatusOf(percent, code),
         code |-> code,
         progress |-> IF percent = NoPercent THEN 0 ELSE percent,
         raw |-> tail]

NoInfo == [status |-> "unknown", code |-> "", progress |-> 0, raw |-> << >>]

----------------------------------------------------------------------------
(* parse_code on one line, the line drawn from the forms croc prints and   *)
(* near misses of them.                                                    *)

Prefixes == {"", "run: "}
SecretLabels == {"CROC_SECRET=\"", "croc_secret=\"", "Croc_Secret=\""}
CodeIsLabels == {"Code is: ", "CODE IS: ", "code  is:"}
CodeColonLabels == {"Code: ", "CODE: ", "code:"}
OtherLabels == {"croc ", "Sending "}
Tokens == {"abc-def-ghi", "funny-bear-7", "ABC-9"}
Suffixes == {"", "\"", "\" croc", " now"}

ParseInputs ==
    [prefix : Prefixes,
     label : SecretLabels \cup CodeIsLabels \cup CodeColonLabels \cup OtherLabels,
     token : Tokens,
     suffix : Suffixes]

LineOf(in) == in.prefix \o in.label \o in.token \o in.suffix

Pending == "<pending>"
NoInput == [prefix |-> "", label |-> "croc ", token |-> "ABC-9", suffix |-> ""]

Parse ==
    /\ parseOut = Pending
    /\ parseOut' = parse_code(<<LineOf(parseIn)>>)
    /\ UNCHANGED <<parseIn, runtimeVars, httpVars, reaperVars>>

IdleService ==
    /\ live = {}
    /\ started = 0
    /\ age = [c \in Ids |-> 0]
    /\ logs = [c \in Ids |-> << >>]
    /\ runCalls = {}
    /\ response = [kind |-> "none", name |-> "", status |-> 0]
    /\ lastInfo = [c \in Ids |-> NoInfo]
    /\ sinceInfo = [c \in Ids |-> {}]
    /\ pc = "sleep"
    /\ sleepLeft = CLEANUP_INTERVAL_SECONDS
    /\ listed = << >>
    /\ nowAge = [c \in Ids |-> 0]
    /\ info = [container |-> 0, status |-> "unknown", age |-> 0]
    /\ lastCall = [op |-> "none", ok |-> TRUE]

InitParse ==
    /\ IdleService
    /\ parseIn \in ParseInputs
    /\ parseOut = Pending

NextParse == Parse

SpecParse == InitParse /\ [][NextParse]_vars

----------------------------------------------------------------------------
(* The status of a running transfer: the container writes to its log and   *)
(* GET /transfers (current_transfers) derives the status from it.          *)

\* raw lines a container may write: croc's own, an unrelated one, a progress
\* bar redrawn with carriage returns, and a percentage above 100
RawLines ==
    {"Sending report.pdf",
     "Code is: funny-bear-7",
     "CROC_SECRET=\"abc-def-ghi\" croc",
     "45%|",
     " \r 7% |\r",
     "150%|",
     "(For Windows)"}

\* how many equal lines one burst holds
BurstSizes == {1, LogTailLines - 1}

Emit(c, raw, n) ==
    /\ c \in live
    /\ logs' = [logs EXCEPT ![c] = LogAppend(@, raw, n)]
    /\ sinceInfo' = [sinceInfo EXCEPT ![c] = @ \cup {raw}]
    /\ UNCHANGED <<live, started, age, runCalls, response, lastInfo,
                   reaperVars, parseVars>>

\* the container writes any of the raw lines, once or many times over
ContainerEmit(c) ==
    /\ Len(logs[c]) < MaxBursts
    /\ \E raw \in RawLines, n \in BurstSizes : Emit(c, raw, n)

\* GET /transfers: handle_container of every listed container
current_transfers ==
    /\ live # {}
    /\ lastInfo' = [c \in Ids |->
                       IF c \in live THEN handle_container(logs[c])
                       ELSE lastInfo[c]]
    /\ sinceInfo' = [c \in Ids |-> IF c \in live THEN {} ELSE sinceInfo[c]]
    /\ UNCHANGED <<runtimeVars, runCalls, response, reaperVars, parseVars>>

\* one transfer has been started and its container runs
InitStatus ==
    /\ live = {1}
    /\ started = 1
    /\ age = [c \in Ids |-> 0]
    /\ logs = [c \in Ids |-> << >>]
    /\ runCalls = {"report.pdf"}
    /\ response = [kind |-> "str", name |-> "report.pdf", status |-> 200]
    /\ lastInfo = [c \in Ids |-> NoInfo]
    /\ sinceInfo = [c \in Ids |-> {}]
    /\ pc = "sleep"
    /\ sleepLeft = CLEANUP_INTERVAL_SECONDS
    /\ listed = << >>
    /\ nowAge = [c \in Ids |-> 0]
    /\ info = [container |-> 0, status |-> "unknown", age |-> 0]
    /\ lastCall = [op |-> "none", ok |-> TRUE]
    /\ parseIn = NoInput
    /\ parseOut = Pending

NextStatus ==
    \/ \E c \in Ids : ContainerEmit(c)
    \/ current_transfers

SpecStatus == InitStatus /\ [][NextStatus]_vars

----------------------------------------------------------------------------
(* The files the service can see, and pathlib as resolve_entry uses it.    *)
(* A path is the sequence of its components below "/".                     *)

Cwd == <<"app">>
FILE_ROOT == <<"files">>

Directories ==
    {<< >>, <<"app">>, <<"app", "files">>, <<"app", "files", "docs">>,
     <<"app", "files2">>, <<"etc">>}
RegularFiles ==
    {<<"app", "files", "report.pdf">>, <<"app", "files", "docs", "a.txt">>,
     <<"app", "files2", "x.txt">>, <<"app", "main.py">>, <<"etc", "passwd">>}
\* a named pipe: it exists and is neither a file nor a directory
Fifos == {<<"app", "files", "pipe">>}
\* a symbolic link inside the root that points out of it
SymlinkAt == <<"app", "files", "out">>
SymlinkTo == <<"etc">>

exists(p) == p \in Directories \cup RegularFiles \cup Fifos
is_file(p) == p \in RegularFiles
is_dir(p) == p \in Directories

\* the components of a path string: "/" separates, empty components and "."
\* are dropped, ".." is kept (pathlib's parsing)
RECURSIVE PathParts(_)
PathParts(name) ==
    IF Len(name) = 0 THEN << >>
    ELSE LET cut == IF \E i \in 1..Len(name) : Ch(name, i) = "/"
                    THEN CHOOSE i \in 1..Len(name) :
                            /\ Ch(name, i) = "/"
                            /\ \A j \in 1..(i - 1) : Ch(name, j) # "/"
                    ELSE Len(name) + 1
             part == SubSeq(name, 1, cut - 1)
             rest == PathParts(SubSeq(name, cut + 1, Len(name)))
         IN  IF part = "" \/ part = "." THEN rest ELSE <<part>> \o rest

IsAbsolute(name) == Len(name) > 0 /\ Ch(name, 1) = "/"

\* Path.resolve(): the components walked from the directory `at`, ".."
\* stepping up and a symbolic link replaced by its target
RECURSIVE Walk(_, _)
Walk(at, parts) ==
    IF parts = << >> THEN at
    ELSE IF Head(parts) = ".."
         THEN Walk(IF at = << >> THEN at ELSE SubSeq(at, 1, Len(at) - 1),
                   Tail(parts))
    ELSE LET next == Append(at, Head(parts))
         IN  Walk(IF next = SymlinkAt THEN SymlinkTo ELSE next, Tail(parts))

\* root.resolve() and (root / name).resolve(): an absolute name replaces root
ResolveRoot(root) == Walk(Cwd, root)
ResolveJoined(root, name) ==
    IF IsAbsolute(name) THEN Walk(<< >>, PathParts(name))
    ELSE Walk(Cwd, root \o PathParts(name))

\* candidate.relative_to(root.resolve()) does not raise ValueError
RelativeTo(p, base) ==
    Len(p) >= Len(base) /\ SubSeq(p, 1, Len(base)) = base

\* resolve_entry's None
NoPath == <<"<None>">>

\* resolve_entry without the relative_to test of lines 84-87
resolve_entry_unconfined(root, name) ==
    IF name = "" THEN ResolveRoot(root)
    ELSE LET candidate == ResolveJoined(root, name)
         IN  IF ~exists(candidate) THEN NoPath ELSE candidate

resolve_entry(root, name) ==
    IF name = "" THEN ResolveRoot(root)
    ELSE LET candidate == ResolveJoined(root, name)
         IN  IF ~RelativeTo(candidate, ResolveRoot(root)) THEN NoPath
             ELSE IF ~exists(candidate) THEN NoPath
             ELSE candidate

----------------------------------------------------------------------------
(* POST /transfer                                                          *)

\* the form's "filename" field: a string, an uploaded file, or not sent
Names ==
    {"report.pdf", "docs", "docs/a.txt", "docs/../report.pdf", ".",
     "missing.txt", "pipe", "../main.py", "../files2/x.txt",
     "../../etc/passwd", "/etc/passwd", "out/passwd", ""}
Requests ==
    [kind : {"str"}, name : Names]
        \cup {[kind |-> "absent", name |-> ""],
              [kind |-> "upload", name |-> "report.pdf"]}

\* form.get("filename", "")
FormName(req) == IF req.kind = "absent" THEN "" ELSE req.name

\* lines 311-316: the request passes both checks
Selectable(req) ==
    /\ req.kind # "upload"
    /\ FormName(req) # ""
    /\ LET file_path == resolve_entry(FILE_ROOT, FormName(req))
       IN  file_path # NoPath /\ (is_file(file_path) \/ is_dir(file_path))

Answer(req, status) == [kind |-> req.kind, name |-> req.name, status |-> status]

\* lines 311-316: 400, and the handler returns
TransferRejected(req) ==
    /\ ~Selectable(req)
    /\ response' = Answer(req, 400)
    /\ UNCHANGED <<runtimeVars, runCalls, lastInfo, sinceInfo, reaperVars,
                   parseVars>>

\* line 332 raises RuntimeError (resolve_host_files_path) while the
\* arguments of containers.run are evaluated: 500, run is not called
TransferNoVolume(req) ==
    /\ Selectable(req)
    /\ response' = Answer(req, 500)
    /\ UNCHANGED <<runtimeVars, runCalls, lastInfo, sinceInfo, reaperVars,
                   parseVars>>

\* containers.run raises DockerException: 500, no container
TransferDockerError(req) ==
    /\ Selectable(req)
    /\ runCalls' = runCalls \cup {req.name}
    /\ response' = Answer(req, 500)
    /\ UNCHANGED <<runtimeVars, lastInfo, sinceInfo, reaperVars, parseVars>>

\* the runtime creates and starts a container labelled "crocle"
NewContainer ==
    /\ started < MaxContainers
    /\ started' = started + 1
    /\ live' = live \cup {started + 1}
    /\ age' = [age EXCEPT ![started + 1] = 0]
    /\ logs' = [logs EXCEPT ![started + 1] = << >>]

\* containers.run returns a new container, detached
TransferStarted(req) ==
    /\ Selectable(req)
    /\ NewContainer
    /\ runCalls' = runCalls \cup {req.name}
    /\ response' = Answer(req, 200)
    /\ UNCHANGED <<lastInfo, sinceInfo, reaperVars, parseVars>>

start_transfer(req) ==
    \/ TransferRejected(req)
    \/ TransferNoVolume(req)
    \/ TransferDockerError(req)
    \/ TransferStarted(req)

\* the runtime deletes container c, its attributes and its log
Forget(c) ==
    /\ live' = live \ {c}
    /\ age' = [age EXCEPT ![c] = 0]
    /\ logs' = [logs EXCEPT ![c] = << >>]
    /\ sinceInfo' = [sinceInfo EXCEPT ![c] = {}]

\* croc ends; the container was run with remove=True and the runtime
\* removes it
ContainerExit(c) ==
    /\ c \in live
    /\ Forget(c)
    /\ UNCHANGED <<started, runCalls, response, lastInfo, reaperVars, parseVars>>

InitTransfer ==
    /\ IdleService
    /\ parseIn = NoInput
    /\ parseOut = Pending

NextTransfer ==
    \/ \E req \in Requests : start_transfer(req)
    \/ \E c \in Ids : ContainerExit(c)

SpecTransfer == InitTransfer /\ [][NextTransfer]_vars

----------------------------------------------------------------------------
(* The service as a whole: transfers are started, their containers run     *)
(* croc, time passes, and cleanup_waiting_containers wakes every minute.   *)

\* what croc writes while it sends a file, in order
CrocScript == <<"Code is: funny-bear-7", "45%|">>

\* croc writes its next line
ContainerStep(c) ==
    /\ Len(logs[c]) < Len(CrocScript)
    /\ Emit(c, CrocScript[Len(logs[c]) + 1], 1)

\* ages are told apart up to one second past the maximum
AgeCap == WAITING_MAX_AGE_SECONDS + 1

Min(a, b) == IF a < b THEN a ELSE b
Max(a, b) == IF a > b THEN a ELSE b

\* the amounts of time that pass in one step: they take a new container to
\* one second short of the maximum age or to the maximum age itself, and any
\* two of them past it
TickSteps == {WAITING_MAX_AGE_SECONDS - 1, WAITING_MAX_AGE_SECONDS}

\* d seconds pass: every running container is d seconds older and the
\* reaper's sleep d seconds nearer its end
Tick(d) ==
    /\ age' = [c \in Ids |-> IF c \in live THEN Min(age[c] + d, AgeCap) ELSE age[c]]
    /\ sleepLeft' = IF pc = "sleep" THEN Max(sleepLeft - d, 0) ELSE sleepLeft
    /\ UNCHANGED <<live, started, logs, httpVars, pc, listed, nowAge, info,
                   lastCall, parseVars>>

\* the orders in which containers.list may return the containers of S
Orderings(S) ==
    {o \in [1..Cardinality(S) -> S] : \A i, j \in 1..Cardinality(S) : o[i] = o[j] => i = j}

\* the DockerException of containers.list not caught: the coroutine ends
OnListErrorUncaught == "dead"

\* line 249: the DockerException of containers.list is caught and the while
\* loop continues with its next turn
OnListError == "sleep"

\* the locals now, container and info hold nothing the coroutine still reads
NoNow == [c \in Ids |-> 0]
NoJudgement == [container |-> 0, status |-> "unknown", age |-> 0]

\* lines 244-249, list raising DockerException
ReaperListFailed ==
    /\ pc = "sleep" /\ sleepLeft = 0
    /\ lastCall' = [op |-> "list", ok |-> FALSE]
    /\ pc' = OnListError
    /\ sleepLeft' = CLEANUP_INTERVAL_SECONDS
    /\ UNCHANGED <<runtimeVars, httpVars, listed, nowAge, info, parseVars>>

\* lines 242-252: the sleep is over, list returns, now = time.time()
ReaperListed ==
    /\ pc = "sleep" /\ sleepLeft = 0
    /\ \E order \in Orderings(live) :
        /\ listed' = order
        /\ pc' = IF order = << >> THEN "sleep" ELSE "loop"
        /\ nowAge' = IF order = << >> THEN NoNow ELSE age
    /\ sleepLeft' = CLEANUP_INTERVAL_SECONDS
    /\ lastCall' = [op |-> "list", ok |-> TRUE]
    /\ UNCHANGED <<runtimeVars, httpVars, info, parseVars>>

\* the for loop goes to its next container, keeping what it judged the last
\* one by, or, the list done, the while loop goes to its next sleep
NextTurn(judged) ==
    /\ listed' = Tail(listed)
    /\ pc' = IF Tail(listed) = << >> THEN "sleep" ELSE "loop"
    /\ nowAge' = IF Tail(listed) = << >> THEN NoNow ELSE nowAge
    /\ info' = IF Tail(listed) = << >> THEN NoJudgement ELSE judged

\* line 259 with the age rounded up to the reaper's next turn
TooYoungUntilNextTurn(a) == a + CLEANUP_INTERVAL_SECONDS < WAITING_MAX_AGE_SECONDS

\* line 259: the container is not old enough to be removed
TooYoung(a) == a < WAITING_MAX_AGE_SECONDS

\* lines 253-260: handle_container returns and the container is judged
ReaperExamined ==
    /\ pc = "loop"
    /\ LET c == Head(listed)
           i == handle_container(logs[c])
           judged == [container |-> c, status |-> i.status, age |-> nowAge[c]]
       IN  /\ c \in live
           /\ IF i.status # "waiting" \/ TooYoung(nowAge[c])
              THEN NextTurn(judged)
              ELSE /\ pc' = "remove"
                   /\ info' = judged
                   /\ UNCHANGED <<listed, nowAge>>
    /\ lastCall' = [op |-> "logs", ok |-> TRUE]
    /\ UNCHANGED <<runtimeVars, httpVars, sleepLeft, parseVars>>

\* line 201 inside line 253: the container is gone and container.logs raises
\* DockerException; nothing catches it and the coroutine ends
ReaperLogsFailed ==
    /\ pc = "loop"
    /\ Head(listed) \notin live
    /\ pc' = "dead"
    /\ lastCall' = [op |-> "logs", ok |-> FALSE]
    /\ UNCHANGED <<runtimeVars, httpVars, sleepLeft, listed, nowAge, info, parseVars>>

\* lines 261-262: container.remove(force=True) returns; the runtime has
\* deleted the container and its log
ReaperRemoved ==
    /\ pc = "remove"
    /\ Head(listed) \in live
    /\ Forget(Head(listed))
    /\ NextTurn(info)
    /\ lastCall' = [op |-> "remove", ok |-> TRUE]
    /\ UNCHANGED <<started, runCalls, response, lastInfo, sleepLeft, parseVars>>

\* lines 263-264: container.remove raises DockerException (the container is
\* gone, or the daemon refuses), which is caught
ReaperRemoveFailed ==
    /\ pc = "remove"
    /\ NextTurn(info)
    /\ lastCall' = [op |-> "remove", ok |-> FALSE]
    /\ UNCHANGED <<runtimeVars, httpVars, sleepLeft, parseVars>>

cleanup_waiting_containers ==
    \/ ReaperListFailed
    \/ ReaperListed
    \/ ReaperExamined
    \/ ReaperLogsFailed
    \/ ReaperRemoved
    \/ ReaperRemoveFailed

\* a transfer is started (the run call of start_transfer, seen from the
\* runtime): one more container carries the label the reaper lists by
ContainerAppears ==
    /\ NewContainer
    /\ UNCHANGED <<httpVars, reaperVars, parseVars>>

TimePasses == \E d \in TickSteps : Tick(d)

Init ==
    /\ IdleService
    /\ parseIn = NoInput
    /\ parseOut = Pending

Next ==
    \/ ContainerAppears
    \/ \E c \in Ids : ContainerStep(c)
    \/ \E c \in Ids : ContainerExit(c)
    \/ TimePasses
    \/ cleanup_waiting_containers

Spec == Init /\ [][Next]_vars

\* ENABLED <<ReaperExamined>>_vars, written out: container.logs can return
\* (ReaperExamined always moves pc or listed)
ReaperCanExamine == pc = "loop" /\ Head(listed) \in live

\* the event loop goes on running the reaper's coroutine wherever it stands
\* (weak fairness of each of its steps, that of ReaperExamined written out
\* with its enabling condition), time goes on, and neither containers.list
\* nor container.remove fails for ever (strong fairness of their returns)
LiveSpec ==
    /\ Init /\ [][Next]_vars
    /\ WF_vars(TimePasses)
    /\ SF_vars(ReaperListed)
    /\ ([]<>~ReaperCanExamine \/ []<><<ReaperExamined>>_vars)
    /\ WF_vars(ReaperLogsFailed)
    /\ SF_vars(ReaperRemoved)
    /\ WF_vars(ReaperRemoveFailed)

----------------------------------------------------------------------------
(* Properties.                                                             *)

\* What each name of Names denotes on the file system above, followed by
\* hand: ".." steps up, the link "out" leads to /etc.
Denotes(name) ==
    CASE name = "report.pdf" -> <<"app", "files", "report.pdf">>
      [] name = "docs" -> <<"app", "files", "docs">>
      [] name = "docs/a.txt" -> <<"app", "files", "docs", "a.txt">>
      [] name = "docs/../report.pdf" -> <<"app", "files", "report.pdf">>
      [] name = "." -> <<"app", "files">>
      [] name = "missing.txt" -> <<"app", "files", "missing.txt">>
      [] name = "pipe" -> <<"app", "files", "pipe">>
      [] name = "../main.py" -> <<"app", "main.py">>
      [] name = "../files2/x.txt" -> <<"app", "files2", "x.txt">>
      [] name = "../../etc/passwd" -> <<"etc", "passwd">>
      [] name = "/etc/passwd" -> <<"etc", "passwd">>
      [] name = "out/passwd" -> <<"etc", "passwd">>
      [] OTHER -> <<"app", "files">>

\* the files and directories that exist under the root (the root included)
SendableEntries ==
    {<<"app", "files">>, <<"app", "files", "report.pdf">>,
     <<"app", "files", "docs">>, <<"app", "files", "docs", "a.txt">>}

GoodSelection(kind, name) ==
    kind = "str" /\ name # "" /\ Denotes(name) \in SendableEntries

\* C1: POST /transfer calls the runtime's run only for a filename that is a
\* non-empty string denoting an existing file or directory under the root;
\* every other request (no filename, an empty one, an upload, a name that
\* does not exist, is no file or directory, or leads out of the root) is
\* answered 400, and only those are.
C1_OnlyGoodSelectionsReachTheRuntime ==
    /\ \A name \in runCalls : GoodSelection("str", name)
    /\ response.kind # "none" =>
          (response.status = 400 <=> ~GoodSelection(response.kind, response.name))

\* a traversal out of the root has been answered 400 after a transfer had
\* been started
C1_TraversalRejected ==
    /\ response = [kind |-> "str", name |-> "../../etc/passwd", status |-> 400]
    /\ "report.pdf" \in runCalls
    /\ live # {}

\* C2 as stated: the reaper calls container.remove only for a container whose
\* derived status is waiting and whose age at the cycle's now exceeds
\* WAITING_MAX_AGE_SECONDS.
C2_RemovesOnlyWaitingOlderThanMaximum ==
    pc = "remove" =>
        /\ info.container = Head(listed)
        /\ info.status = "waiting"
        /\ info.age > WAITING_MAX_AGE_SECONDS

\* C2 as amended: the reaper calls container.remove only for a container
\* whose derived status is waiting and whose age at the cycle's now is at
\* least WAITING_MAX_AGE_SECONDS; so a waiting container of age 599 is left
\* alone, and so is a preparing or transferring one of any age.
C2_RemovesOnlyWaitingAtMaximumAge ==
    pc = "remove" =>
        /\ info.container = Head(listed)
        /\ info.status = "waiting"
        /\ info.age >= WAITING_MAX_AGE_SECONDS

\* the reaper is about to remove a waiting container that is exactly
\* WAITING_MAX_AGE_SECONDS old
C2_RemovalAtExactlyMaximumAge ==
    /\ pc = "remove"
    /\ info.status = "waiting"
    /\ info.age = WAITING_MAX_AGE_SECONDS
    /\ Head(listed) \in live

\* container c runs, its status is waiting and its age is past the maximum
OverdueWaiting(c) ==
    /\ c \in live
    /\ age[c] > WAITING_MAX_AGE_SECONDS
    /\ handle_container(logs[c]).status = "waiting"

\* C3: a container that is waiting with an age past the maximum, and stays
\* waiting, is eventually gone from the runtime's listing.
C3_OverdueWaitingIsEventuallyGone ==
    \A c \in Ids : OverdueWaiting(c) ~> ~OverdueWaiting(c)

\* C4: a DockerException of containers.list or of container.remove never
\* ends the reaper: after a failed list it is asleep until its next cycle,
\* after a failed remove it is at the next container or asleep.
C4_ListAndRemoveFailuresDoNotEndTheLoop ==
    /\ lastCall = [op |-> "list", ok |-> FALSE] => pc = "sleep"
    /\ lastCall = [op |-> "remove", ok |-> FALSE] => pc \in {"loop", "sleep"}

\* a removal has failed and the reaper stands at the next container
C4_FailedRemovalSkipped ==
    /\ lastCall = [op |-> "remove", ok |-> FALSE]
    /\ pc = "loop"
    /\ info.container \notin live

\* how the raw lines of RawLines read, told by eye
ProgressRaw == {"45%|", " \r 7% |\r", "150%|"}
CodeRaw == {"Code is: funny-bear-7", "CROC_SECRET=\"abc-def-ghi\" croc"}
QuietRaw == {"(For Windows)"}

Shows(tail, kind) == \E i \in 1..Len(tail) : tail[i].raw \in kind

One(raw) == [raw |-> raw, n |-> 1]

\* C5: the status of every captured log follows the precedence progress,
\* then code, then preparing; and the logs "Sending report.pdf", then
\* "Code is: funny-bear-7", then "45%|" give preparing, waiting with code
\* funny-bear-7, and transferring with progress 45.
C5_StatusFollowsPrecedence ==
    \A c \in Ids :
        LET i == lastInfo[c] IN
        i.status # "unknown" =>
            /\ i.status = IF Shows(i.raw, ProgressRaw) THEN "transferring"
                          ELSE IF Shows(i.raw, CodeRaw) THEN "waiting"
                          ELSE "preparing"
            /\ i.raw = <<One("Sending report.pdf")>> =>
                   i.status = "preparing" /\ i.code = ""
            /\ i.raw = <<One("Sending report.pdf"), One("Code is: funny-bear-7")>> =>
                   i.status = "waiting" /\ i.code = "funny-bear-7"
            /\ i.raw = <<One("Sending report.pdf"), One("Code is: funny-bear-7"),
                         One("45%|")>> =>
                   /\ i.status = "transferring"
                   /\ i.progress = 45
                   /\ i.code = "funny-bear-7"

\* GET /transfers has shown a log with both a code and a progress line
C5_ProgressOverridesCode ==
    /\ lastInfo[1].raw = <<One("Sending report.pdf"), One("Code is: funny-bear-7"),
                           One("45%|")>>
    /\ lastInfo[1].status = "transferring"

\* C6: once a status computation has reported a non-empty code for a
\* container, every later one reports the same code.
C6_CodeIsWriteOnce ==
    [][\A c \in Ids : lastInfo[c].code # "" => lastInfo'[c].code = lastInfo[c].code]_vars

\* C7: the reported progress is an integer in 0..100, and a status of
\* transferring rests on a percentage in that range.
C7_ProgressWithinRange ==
    \A c \in Ids :
        /\ lastInfo[c].progress \in 0..100
        /\ lastInfo[c].status = "transferring" =>
              Shows(lastInfo[c].raw, ProgressRaw \ {"150%|"})

\* the forms of a line, read off the parts it is built from
InSecretForm(in) == in.label \in SecretLabels /\ in.suffix \in {"\"", "\" croc"}
InCodeIsForm(in) == in.label \in CodeIsLabels
InCodeColonForm(in) == in.label \in CodeColonLabels

StatusRank(status) ==
    CASE status = "transferring" -> 3
      [] status = "waiting" -> 2
      [] status = "preparing" -> 1
      [] OTHER -> 0

\* C9: when only lines without progress, code or status hint have been
\* written since the last status computation, the next one does not report
\* an earlier status.
C9_QuietLinesKeepTheStatus ==
    [][\A c \in Ids :
          (lastInfo[c].status # "unknown" /\ sinceInfo[c] \subseteq QuietRaw)
              => StatusRank(lastInfo'[c].status) >= StatusRank(lastInfo[c].status)]_vars

\* C10: a container that is gone when the reaper reads its log (container.logs
\* raises) does not end the reaper.
C10_LostContainerDoesNotEndTheLoop ==
    lastCall = [op |-> "logs", ok |-> FALSE] => pc # "dead"

=============================================================================
